---------------------------- MODULE Spec2Model ----------------------------
(***************************************************************************)
(* LivePulse dashboard (src/dashboard.py): the data-refresh layer          *)
(* (init_supabase, load_data under st.cache_data(ttl=300), the Refresh     *)
(* Data button, the uploaded-CSV fallback) and the article filter of the   *)
(* Articles tab.  One script run of the Streamlit page is modelled as a    *)
(* sequence of steps of main(); the cache and the clock outlive the runs.  *)
(* load_data() is a cache lookup, a wait for the compute lock while another *)
(* call computes on the same cache, and the return of the remote query; at *)
(* any position of a run the clock can move and another session of the     *)
(* same process can look the cache up, fetch, store and clear.             *)
(***************************************************************************)
EXTENDS Integers, Sequences, FiniteSets, TLC

VARIABLES
    conf,           \* st.secrets / os.environ entries read by init_supabase
    supabase,       \* the st.cache_resource slot of init_supabase
    now,            \* the clock st.cache_data reads, in seconds
    cache,          \* the st.cache_data slot of load_data
    pc,             \* position of the current script run
    messages,       \* st.error / st.warning / banner elements of the current run
    uploaded_file,  \* main: value of st.file_uploader
    df,             \* main: the table being displayed
    sel,            \* main: sentiment_filter, source_filter, topic_filter
    filtered_df,    \* main: df restricted by the three filters
    shown,          \* main: the rows rendered as expanders
    get,            \* observation of the last load_data() call of this run
    dropped,        \* observation: the entry the last st.cache_data.clear()
                    \* removed, until the next load_data() call of any session
    peer,           \* another session's script run: "idle", "waiting" for
                    \* the compute lock, or "fetching" while its load_data()
                    \* waits in execute()
    myCache,        \* the cache object this run's load_data() call works on
    peerCache       \* the cache object the other session's call works on

vars == <<conf, supabase, now, cache, pc, messages, uploaded_file, df, sel,
          filtered_df, shown, get, dropped, peer, myCache, peerCache>>

-----------------------------------------------------------------------------
(* Bounds of the model *)

MaxCacheRows == 1
MaxRows == 2
MaxTime == 650

(* Program constants *)

TTL == 300
HeadRows == 20

-----------------------------------------------------------------------------
(* Values *)

None == "None"

Sentiments == {"Positive", "Negative"}
Sources == {"BBC", "CNN"}
Topics == {"Weather", "Finance"}

Article == [sentiment : Sentiments, source : Sources, topic : Topics]

Storm == [sentiment |-> "Negative", source |-> "BBC", topic |-> "Weather"]
Markets == [sentiment |-> "Positive", source |-> "CNN", topic |-> "Finance"]

TablesOver(rows, n) == UNION {[1..k -> rows] : k \in 0..n}

EmptyTable == <<>>

\* tables the remote store answers with in the refresh model
CacheTables == TablesOver({Storm}, MaxCacheRows)

\* tables the uploaded CSV holds in the refresh model
UploadTables == TablesOver({Markets}, MaxCacheRows)

\* tables the filter is exercised on
FilterTables == TablesOver(Article, MaxRows)

ConfValues == {None, "", "u"}

NoEntry == [present |-> FALSE, value |-> EmptyTable, at |-> 0, err |-> FALSE,
            by |-> "none"]

NoGet == [lookup |-> "none", fetched |-> 0, outcome |-> "none",
          ret |-> EmptyTable, before |-> NoEntry, dropped |-> NoEntry,
          time |-> 0, waited |-> FALSE]

\* the cache object a call works on: the one st.cache_data holds for
\* load_data now, or one that st.cache_data.clear() has dropped since the
\* call started, with the entry it holds for a call still to look it up
Live == [live |-> TRUE, entry |-> NoEntry]

Orphan(e) == [live |-> FALSE, entry |-> e]

NoFile == [kind |-> "none", table |-> EmptyTable]

\* what the file uploader can hold: nothing, a CSV of some table, or a
\* file pd.read_csv cannot parse
Uploads(Tabs) ==
    {NoFile, [kind |-> "garbage", table |-> EmptyTable]}
        \cup {[kind |-> "csv", table |-> t] : t \in Tabs}

\* what supabase.table('articles').select("*").execute() can do: raise, or
\* answer with rows whose published_date column pd.to_datetime accepts or not
Responses(Tabs) ==
    {[raises |-> TRUE, data |-> EmptyTable, dates_ok |-> TRUE]}
        \cup {[raises |-> FALSE, data |-> t, dates_ok |-> d] :
                 t \in Tabs, d \in BOOLEAN}

NoSel == [sentiment |-> {}, source |-> {}, topic |-> {}]

Deltas == {TTL - 1, TTL, TTL + 1}

-----------------------------------------------------------------------------
(* init_supabase *)

\* st.secrets.get(k, os.getenv(k)): the secret when the key is present,
\* otherwise the environment variable (None when unset)
SecretsGet(secret, env) == IF secret # None THEN secret ELSE env

\* Python truthiness of an optional string
Truthy(s) == s # None /\ s # ""

\* both credentials would have to be missing
CredentialsMissingBoth(c) ==
    /\ ~Truthy(SecretsGet(c.secrets_url, c.env_url))
    /\ ~Truthy(SecretsGet(c.secrets_key, c.env_key))

CredentialsMissing(c) ==
    \/ ~Truthy(SecretsGet(c.secrets_url, c.env_url))
    \/ ~Truthy(SecretsGet(c.secrets_key, c.env_key))

InitSupabase ==
    /\ pc = "start"
    /\ IF supabase = "client"
         THEN /\ pc' = "sidebar"
              /\ UNCHANGED <<supabase, messages>>
         ELSE IF CredentialsMissing(conf)
                THEN /\ messages' = messages \cup {"credentials_error"}
                     /\ pc' = "halted"
                     /\ UNCHANGED supabase
                ELSE /\ supabase' = "client"
                     /\ pc' = "sidebar"
                     /\ UNCHANGED messages
    /\ UNCHANGED <<conf, now, cache, uploaded_file, df, sel, filtered_df,
                   shown, get, dropped, peer, myCache,
                   peerCache>>

-----------------------------------------------------------------------------
(* st.cache_data(ttl=300) around load_data, and st.cache_data.clear() *)

\* the ttl would be ignored
IsFreshForever(entry, t) == entry.present

\* an entry is served while it is younger than the ttl
IsFresh(entry, t) == entry.present /\ t - entry.at < TTL

\* the cache would survive the clear
ClearCacheKeeps(entry) == entry

\* st.cache_data.clear(): the cache objects are dropped, so the next lookup
\* finds no entry
ClearCache(entry) == NoEntry

\* a call in progress at a clear keeps the cache object it started on: what
\* it stores there no later call reads, and a call waiting for the lock
\* still looks up the entry that object held
Detach(state, ref, entry) ==
    IF state \in {"waiting", "fetching"} /\ ref.live
      THEN Orphan(IF state = "waiting" THEN entry ELSE NoEntry)
      ELSE ref

\* the compute lock would never be found taken
LockHeldNever(state, theirs, mine) == FALSE

\* the compute lock st.cache_data takes on a miss, one per cache object and
\* key: it is held while the other session's call computes on the same
\* cache object
LockHeld(state, theirs, mine) ==
    state = "fetching" /\ theirs.live /\ mine.live

\* a failed date conversion would hand back the unconverted rows
LoadDataBodyKeepsRows(resp) ==
    IF resp.raises
      THEN [value |-> EmptyTable, err |-> TRUE]
      ELSE [value |-> resp.data, err |-> ~resp.dates_ok /\ resp.data # EmptyTable]

\* body of load_data: the returned frame and whether st.error was called
LoadDataBody(resp) ==
    IF resp.raises
      THEN [value |-> EmptyTable, err |-> TRUE]
      ELSE IF resp.data # EmptyTable
             THEN IF resp.dates_ok
                    THEN [value |-> resp.data, err |-> FALSE]
                    ELSE [value |-> EmptyTable, err |-> TRUE]
             ELSE [value |-> EmptyTable, err |-> FALSE]

Outcome(resp) ==
    IF LoadDataBody(resp).err THEN "fail"
    ELSE IF resp.data = EmptyTable THEN "empty" ELSE "rows"

\* the except branch would report nothing
ErrorElementsSilent(err) == {}

\* line 190: st.error inside load_data
ErrorElements(err) == IF err THEN {"load_error"} ELSE {}

ResetLocals ==
    /\ uploaded_file' = NoFile
    /\ df' = EmptyTable
    /\ sel' = NoSel
    /\ filtered_df' = EmptyTable
    /\ shown' = EmptyTable
    /\ get' = NoGet
    /\ messages' = {}

\* main, lines 200-223: the sidebar; the Refresh Data button clears the
\* cache and reruns the script
Sidebar(Tabs) ==
    /\ pc = "sidebar"
    /\ \E f \in Uploads(Tabs), clicked \in BOOLEAN :
         IF clicked
           THEN /\ cache' = ClearCache(cache)
                /\ peerCache' = Detach(peer, peerCache, cache)
                /\ dropped' = IF cache.present THEN cache ELSE dropped
                /\ pc' = "start"
                /\ ResetLocals
           ELSE /\ uploaded_file' = f
                /\ pc' = "load"
                /\ UNCHANGED <<cache, peerCache, dropped, df, sel,
                               filtered_df, shown, get, messages>>
    /\ UNCHANGED <<conf, supabase, now, peer, myCache>>

\* the entry st.cache_data writes when the body returns at time t
Entry(r, t, who) ==
    [present |-> TRUE, value |-> r.value, at |-> t, err |-> r.err, by |-> who]

\* main, line 226: df = load_data(); the cache is looked up and a fresh entry
\* is returned; on a miss the call takes the compute lock, waiting while
\* another call holds it, and otherwise starts the body and waits in
\* execute() (line 182)
LoadData ==
    /\ pc = "load"
    /\ IF IsFresh(cache, now)
         THEN /\ df' = cache.value
              /\ messages' = messages \cup ErrorElements(cache.err)
              /\ get' = [NoGet EXCEPT !.lookup = "hit", !.ret = cache.value,
                                      !.before = cache,
                                      !.dropped = dropped, !.time = now]
              /\ pc' = "branch"
         ELSE LET wait == LockHeld(peer, peerCache, Live) IN
              /\ get' = [NoGet EXCEPT !.lookup = IF cache.present
                                                   THEN "expired" ELSE "absent",
                                      !.fetched = IF wait THEN 0 ELSE 1,
                                      !.before = cache,
                                      !.dropped = dropped, !.time = now,
                                      !.waited = wait]
              /\ pc' = IF wait THEN "waiting" ELSE "fetching"
              /\ UNCHANGED <<df, messages>>
    /\ dropped' = NoEntry
    /\ UNCHANGED <<conf, supabase, now, cache, uploaded_file, sel, filtered_df,
                   shown, peer, myCache, peerCache>>

\* the waiting call gets the compute lock and looks the cache object it
\* started on up again: an entry stored meanwhile is returned, otherwise the
\* body starts
LoadDataWake ==
    /\ pc = "waiting"
    /\ ~LockHeld(peer, peerCache, myCache)
    /\ LET e == IF myCache.live THEN cache ELSE myCache.entry IN
       IF IsFresh(e, now)
         THEN /\ df' = e.value
              /\ messages' = messages \cup ErrorElements(e.err)
              /\ get' = [get EXCEPT !.lookup = "hit", !.ret = e.value,
                                    !.before = e, !.time = now]
              /\ pc' = "branch"
              /\ myCache' = Live
         ELSE /\ get' = [get EXCEPT !.lookup = IF e.present
                                                 THEN "expired" ELSE "absent",
                                    !.fetched = 1, !.before = e, !.time = now]
              /\ pc' = "fetching"
              /\ myCache' = IF myCache.live THEN Live ELSE Orphan(NoEntry)
              /\ UNCHANGED <<df, messages>>
    /\ UNCHANGED <<conf, supabase, now, cache, uploaded_file, sel, filtered_df,
                   shown, dropped, peer, peerCache>>

\* load_data, lines 182-191: execute() answers or raises, the body returns
\* and st.cache_data stores what it returned in the cache object the call
\* started on
LoadDataReturn(Tabs) ==
    /\ pc = "fetching"
    /\ \E resp \in Responses(Tabs) :
         LET r == LoadDataBody(resp) IN
         /\ cache' = IF myCache.live THEN Entry(r, now, "me") ELSE cache
         /\ df' = r.value
         /\ messages' = messages \cup ErrorElements(r.err)
         /\ get' = [get EXCEPT !.outcome = Outcome(resp), !.ret = r.value]
    /\ pc' = "branch"
    /\ myCache' = Live
    /\ UNCHANGED <<conf, supabase, now, uploaded_file, sel, filtered_df, shown,
                   dropped, peer, peerCache>>

\* The other session runs the same script against the same cache; its steps
\* can fall at any position of this session's run.

\* another session reaches line 226: a fresh entry is returned to it,
\* otherwise it waits for the compute lock or its own call of the body starts
PeerLoadData ==
    /\ peer = "idle"
    /\ ~CredentialsMissing(conf)
    /\ ~IsFresh(cache, now)
    /\ peer' = IF LockHeld(pc, myCache, Live) THEN "waiting" ELSE "fetching"
    /\ supabase' = "client"
    /\ dropped' = NoEntry
    /\ UNCHANGED <<conf, now, cache, pc, messages, uploaded_file, df, sel,
                   filtered_df, shown, get, myCache, peerCache>>

\* the other session's waiting call gets the compute lock and looks up again
PeerLoadDataWake ==
    /\ peer = "waiting"
    /\ ~LockHeld(pc, myCache, peerCache)
    /\ LET e == IF peerCache.live THEN cache ELSE peerCache.entry IN
       IF IsFresh(e, now)
         THEN /\ peer' = "idle"
              /\ peerCache' = Live
         ELSE /\ peer' = "fetching"
              /\ peerCache' = IF peerCache.live THEN Live ELSE Orphan(NoEntry)
    /\ UNCHANGED <<conf, supabase, now, cache, pc, messages, uploaded_file, df,
                   sel, filtered_df, shown, get, dropped, myCache>>

\* the other session's execute() answers or raises and its result is stored
\* in the cache object its call started on
PeerLoadDataReturn(Tabs) ==
    /\ peer = "fetching"
    /\ \E resp \in Responses(Tabs) :
         LET r == LoadDataBody(resp) IN
         /\ cache' = IF peerCache.live THEN Entry(r, now, "peer") ELSE cache
    /\ peer' = "idle"
    /\ peerCache' = Live
    /\ UNCHANGED <<conf, supabase, now, pc, messages, uploaded_file, df, sel,
                   filtered_df, shown, get, dropped, myCache>>

\* the other session's Refresh Data button, lines 213-215
PeerClear ==
    /\ peer = "idle"
    /\ ~CredentialsMissing(conf)
    /\ cache' = ClearCache(cache)
    /\ myCache' = Detach(pc, myCache, cache)
    /\ dropped' = IF cache.present THEN cache ELSE dropped
    /\ supabase' = "client"
    /\ UNCHANGED <<conf, now, pc, messages, uploaded_file, df, sel,
                   filtered_df, shown, get, peer, peerCache>>

\* an uploaded file would replace the frame whatever it holds
UseUploadAlways(frame, file) == file.kind # "none"

\* main, lines 228-236: the uploaded CSV replaces an empty frame
UseUpload(frame, file) == frame = EmptyTable /\ file.kind # "none"

Fallback ==
    /\ pc = "branch"
    /\ IF UseUpload(df, uploaded_file)
         THEN IF uploaded_file.kind = "csv"
                THEN /\ df' = uploaded_file.table
                     /\ messages' = messages \cup {"banner"}
                     /\ pc' = "tabs"
                ELSE /\ pc' = "raised"
                     /\ UNCHANGED <<df, messages>>
         ELSE IF df # EmptyTable
                THEN /\ messages' = messages \cup {"banner"}
                     /\ pc' = "tabs"
                     /\ UNCHANGED df
                ELSE /\ messages' = messages \cup {"no_data"}
                     /\ pc' = "returned"
                     /\ UNCHANGED df
    /\ UNCHANGED <<conf, supabase, now, cache, uploaded_file, sel, filtered_df,
                   shown, get, dropped, peer, myCache,
                   peerCache>>

-----------------------------------------------------------------------------
(* main, lines 379-396: the Articles tab *)

RECURSIVE Unique(_)
\* Series.unique(): the distinct values in order of first appearance
Unique(s) ==
    IF s = <<>> THEN <<>>
    ELSE LET rest == Unique(SubSeq(s, 1, Len(s) - 1))
             x == s[Len(s)]
         IN IF \E i \in 1..Len(rest) : rest[i] = x THEN rest
                                                     ELSE Append(rest, x)

Column(table, name) == [i \in 1..Len(table) |-> table[i][name]]

Range(s) == {s[i] : i \in 1..Len(s)}

\* s[:n]
Take(s, n) == SubSeq(s, 1, IF Len(s) < n THEN Len(s) ELSE n)

Options(table, name) == Range(Unique(Column(table, name)))

\* an empty selection would match everything
IsinOrEmpty(x, values) == values = {} \/ x \in values

\* Series.isin(values), one element
Isin(x, values) == x \in values

\* the three conditions would be joined with | instead of &
MaskAny(row, s) ==
    \/ row.sentiment \in s.sentiment
    \/ row.source \in s.source
    \/ row.topic \in s.topic

\* the boolean mask of lines 391-393, one row
Mask(row, s) ==
    /\ Isin(row.sentiment, s.sentiment)
    /\ Isin(row.source, s.source)
    /\ Isin(row.topic, s.topic)

RECURSIVE BoolIndex(_, _)
\* df[mask]: the rows whose mask is True, in order
BoolIndex(table, s) ==
    IF table = <<>> THEN <<>>
    ELSE LET rest == BoolIndex(Tail(table), s)
         IN IF Mask(Head(table), s) THEN <<Head(table)>> \o rest ELSE rest

\* the first matching row would be lost
ApplyFilterSkipsFirst(table, s) ==
    IF BoolIndex(table, s) = <<>> THEN <<>> ELSE Tail(BoolIndex(table, s))

ApplyFilter(table, s) == BoolIndex(table, s)

\* lines 384-388: each multiselect returns a subset of the values present
SelectFilters ==
    /\ pc = "tabs"
    /\ \E a \in SUBSET Options(df, "sentiment"),
          b \in SUBSET Options(df, "source"),
          c \in SUBSET Options(df, "topic") :
         sel' = [sentiment |-> a, source |-> b, topic |-> c]
    /\ pc' = "filter"
    /\ UNCHANGED <<conf, supabase, now, cache, messages, uploaded_file, df,
                   filtered_df, shown, get, dropped, peer, myCache,
                   peerCache>>

\* lines 390-394
ApplyFilters ==
    /\ pc = "filter"
    /\ filtered_df' = ApplyFilter(df, sel)
    /\ pc' = "render"
    /\ UNCHANGED <<conf, supabase, now, cache, messages, uploaded_file, df,
                   sel, shown, get, dropped, peer, myCache,
                   peerCache>>

\* line 396: filtered_df.head(20)
Render ==
    /\ pc = "render"
    /\ shown' = Take(filtered_df, HeadRows)
    /\ pc' = "done"
    /\ UNCHANGED <<conf, supabase, now, cache, messages, uploaded_file, df,
                   sel, filtered_df, get, dropped, peer, myCache,
                   peerCache>>

-----------------------------------------------------------------------------
(* Between script runs *)

\* a run is over when the script stops, returns or raises, and a widget
\* interaction on the rendered page starts the next one
Ended == pc \in {"halted", "returned", "raised", "tabs", "done"}

\* the next interaction runs the script again from the top
Rerun ==
    /\ Ended
    /\ pc' = "start"
    /\ ResetLocals
    /\ UNCHANGED <<conf, supabase, now, cache, dropped, peer, myCache,
                   peerCache>>

\* time passes, at any position of the run
Tick ==
    /\ \E d \in Deltas : now + d <= MaxTime /\ now' = now + d
    /\ UNCHANGED <<conf, supabase, cache, pc, messages, uploaded_file, df,
                   sel, filtered_df, shown, get, dropped, peer, myCache,
                   peerCache>>

-----------------------------------------------------------------------------
(* The dashboard: startup, refresh and fallback *)

Confs == [secrets_url : ConfValues, env_url : ConfValues,
          secrets_key : ConfValues, env_key : ConfValues]

\* configurations of the refresh model: one per way a credential is found
\* or missing
RefreshConfs ==
    {c \in Confs : /\ c.secrets_key = "u" /\ c.env_key = None
                   /\ c.env_url \in {None, "u"}
                   /\ c.secrets_url \in {None, ""}}

InitWith(cs) ==
    /\ conf \in cs
    /\ supabase = "none"
    /\ now = 0
    /\ cache = NoEntry
    /\ pc = "start"
    /\ messages = {}
    /\ uploaded_file = NoFile
    /\ df = EmptyTable
    /\ sel = NoSel
    /\ filtered_df = EmptyTable
    /\ shown = EmptyTable
    /\ get = NoGet
    /\ dropped = NoEntry
    /\ peer = "idle"
    /\ myCache = Live
    /\ peerCache = Live

Init == InitWith(RefreshConfs)

Next ==
    \/ InitSupabase
    \/ Sidebar(UploadTables)
    \/ LoadData
    \/ LoadDataWake
    \/ LoadDataReturn(CacheTables)
    \/ PeerLoadData
    \/ PeerLoadDataWake
    \/ PeerLoadDataReturn(CacheTables)
    \/ PeerClear
    \/ Fallback
    \/ Rerun
    \/ Tick

Spec == Init /\ [][Next]_vars

-----------------------------------------------------------------------------
(* Startup under every configuration *)

\* at startup the store and the upload hold one article
StartupTables == {<<Storm>>}

InitStartup == InitWith(Confs)

NextStartup ==
    \/ InitSupabase
    \/ Sidebar(StartupTables)
    \/ LoadData
    \/ LoadDataWake
    \/ LoadDataReturn(StartupTables)
    \/ PeerLoadData
    \/ PeerLoadDataWake
    \/ PeerLoadDataReturn(StartupTables)
    \/ PeerClear
    \/ Fallback
    \/ Rerun
    \/ Tick

SpecStartup == InitStartup /\ [][NextStartup]_vars

-----------------------------------------------------------------------------
(* The Articles tab on every table up to MaxRows rows *)

ValidConf == [secrets_url |-> "u", env_url |-> None,
              secrets_key |-> "u", env_key |-> None]

\* the state of a first run that has reached line 379 with frame t: fetched
\* from the store, or read from an uploaded CSV when t has no rows
InitFilter ==
    \E t \in FilterTables :
        /\ conf = ValidConf
        /\ supabase = "client"
        /\ now = 0
        /\ cache = [present |-> TRUE, value |-> t, at |-> 0, err |-> FALSE,
                    by |-> "me"]
        /\ pc = "tabs"
        /\ messages = {"banner"}
        /\ uploaded_file = IF t = EmptyTable
                             THEN [kind |-> "csv", table |-> EmptyTable]
                             ELSE NoFile
        /\ df = t
        /\ sel = NoSel
        /\ filtered_df = EmptyTable
        /\ shown = EmptyTable
        /\ get = [lookup |-> "absent", fetched |-> 1,
                  outcome |-> IF t = EmptyTable THEN "empty" ELSE "rows",
                  ret |-> t, before |-> NoEntry, dropped |-> NoEntry,
                  time |-> 0, waited |-> FALSE]
        /\ dropped = NoEntry
        /\ peer = "idle"
        /\ myCache = Live
        /\ peerCache = Live

NextFilter ==
    \/ SelectFilters
    \/ ApplyFilters
    \/ Render

SpecFilter == InitFilter /\ [][NextFilter]_vars

-----------------------------------------------------------------------------
(* Properties of the refresh layer (Spec) *)

AfterLoad == pc = "branch"

\* C1: a load_data() call that finds an entry younger than the ttl returns
\* that entry's table and issues no fetch; a call that finds an entry older
\* than the ttl issues exactly one fetch.
TtlRespect ==
    (AfterLoad /\ get.before.present) =>
        /\ (get.time - get.before.at < TTL =>
                get.fetched = 0 /\ get.ret = get.before.value /\ df = get.ret)
        /\ (get.time - get.before.at > TTL =>
                get.fetched = 1 /\ get.outcome # "none")

\* C1 witness: a call 299 s after the capture is served the captured rows.
TtlRespectWitness ==
    /\ AfterLoad
    /\ get.before.present
    /\ get.time - get.before.at = TTL - 1
    /\ get.fetched = 0
    /\ get.ret # EmptyTable

\* C2: the first load_data() call of any session after the Refresh Data
\* button removed an entry issues a fetch, whatever the age of that entry.
Invalidation ==
    (AfterLoad /\ get.dropped.present) =>
        get.fetched = 1 /\ get.lookup = "absent"

\* C2 witness: an entry with rows was removed before its ttl had passed,
\* while the other session's fetch was in flight, and the next call fetched.
InvalidationWitness ==
    /\ AfterLoad
    /\ get.dropped.present
    /\ get.dropped.value # EmptyTable
    /\ get.time - get.dropped.at < TTL
    /\ get.fetched = 1
    /\ peer = "fetching"
    /\ ~peerCache.live

\* the entry the refresh replaces: the expired one the lookup found, or
\* the one the Refresh Data button removed
Previous == IF get.before.present THEN get.before ELSE get.dropped

\* C3 as stated: a failed refresh after an earlier successful fetch returns
\* the table of that fetch.
StaleFallback ==
    (AfterLoad /\ get.outcome = "fail" /\ Previous.present /\ ~Previous.err) =>
        get.ret = Previous.value

\* C3 as amended: a failed fetch returns the empty table and shows the
\* error, whether or not an earlier fetch succeeded.
FailedRefreshIsEmpty ==
    (AfterLoad /\ get.outcome = "fail") =>
        /\ get.ret = EmptyTable
        /\ df = EmptyTable
        /\ "load_error" \in messages

\* C3 witness: a refresh failed although the entry it replaces held rows.
FailedRefreshWitness ==
    /\ AfterLoad
    /\ get.outcome = "fail"
    /\ Previous.present
    /\ Previous.value # EmptyTable

\* what load_data returns when the store answers with zero rows
ZeroRowResult ==
    LoadDataBody([raises |-> FALSE, data |-> EmptyTable, dates_ok |-> TRUE]).value

\* C4 as stated: the value returned for a failed fetch with no previous
\* entry differs from the value returned for a successful fetch of zero rows.
UnavailableIsExplicit ==
    (AfterLoad /\ get.outcome = "fail" /\ ~Previous.present) =>
        get.ret # ZeroRowResult

\* C4 as amended: a failed fetch and a zero-row fetch return the same empty
\* table; only the error element of the run tells them apart.
UnavailableOnlyByMessage ==
    (AfterLoad /\ get.fetched = 1) =>
        /\ (get.outcome = "fail" =>
               get.ret = ZeroRowResult /\ "load_error" \in messages)
        /\ (get.outcome = "empty" =>
               get.ret = ZeroRowResult /\ "load_error" \notin messages)

\* C4 witness: a fetch failed with no entry before it.
UnavailableWitness ==
    /\ AfterLoad
    /\ get.outcome = "fail"
    /\ ~Previous.present
    /\ get.ret = EmptyTable

AfterFallback == pc \in {"tabs", "filter", "render", "done", "returned", "raised"}

\* C8: the frame shown is the uploaded table exactly when load_data returned
\* no rows and a file is present; otherwise it is the table load_data
\* returned; it is never anything but one of the two.
LocalOverride ==
    AfterFallback =>
        /\ (get.ret # EmptyTable => df = get.ret /\ pc # "raised")
        /\ (get.ret = EmptyTable /\ uploaded_file.kind = "csv" =>
               df = uploaded_file.table /\ pc \notin {"returned", "raised"})
        /\ (get.ret = EmptyTable /\ uploaded_file.kind = "garbage" =>
               pc = "raised")
        /\ (get.ret = EmptyTable /\ uploaded_file.kind = "none" =>
               pc = "returned" /\ df = EmptyTable)
        /\ df \in {get.ret, uploaded_file.table}

\* C8 witness: the store gave no rows and the uploaded rows are shown.
LocalOverrideWitness ==
    /\ pc = "tabs"
    /\ get.ret = EmptyTable
    /\ uploaded_file.kind = "csv"
    /\ uploaded_file.table # EmptyTable
    /\ df = uploaded_file.table

-----------------------------------------------------------------------------
(* Properties of startup (SpecStartup) *)

\* C10: with the URL or the key missing, the run stops in init_supabase with
\* the error shown: no client, no fetch, no cache entry, nothing of main.
ConfigGate ==
    (\/ ~Truthy(SecretsGet(conf.secrets_url, conf.env_url))
     \/ ~Truthy(SecretsGet(conf.secrets_key, conf.env_key))) =>
        /\ pc \in {"start", "halted"}
        /\ (pc = "halted" => "credentials_error" \in messages)
        /\ supabase = "none"
        /\ ~cache.present
        /\ get = NoGet
        /\ peer = "idle"

\* C10 witness: the key is there, the URL is not, and the run has stopped.
ConfigGateWitness ==
    /\ pc = "halted"
    /\ conf.secrets_url = None /\ conf.env_url = None
    /\ conf.secrets_key = "u"

-----------------------------------------------------------------------------
(* Properties of the filter (SpecFilter) *)

Filtered == pc \in {"render", "done"}

\* the filter the claims describe: an empty selection leaves its axis out
ActiveMask(row, s) ==
    /\ (s.sentiment # {} => row.sentiment \in s.sentiment)
    /\ (s.source # {} => row.source \in s.source)
    /\ (s.topic # {} => row.topic \in s.topic)

ActiveView(table, s) == SelectSeq(table, LAMBDA r : ActiveMask(r, s))

\* the rows that are members of all three selections, in order
MemberView(table, s) ==
    SelectSeq(table, LAMBDA r : /\ r.sentiment \in s.sentiment
                                /\ r.source \in s.source
                                /\ r.topic \in s.topic)

\* C6 as stated: an empty selection excludes no row on its axis, and with
\* all three empty the view is the input table.
EmptyMeansAll ==
    Filtered =>
        /\ (sel = NoSel => filtered_df = df)
        /\ (\E a \in {"sentiment", "source", "topic"} : sel[a] = {}) =>
               filtered_df = ActiveView(df, sel)

\* C6 as amended: an empty selection on any axis excludes every row; the
\* view is the input table when every axis selects all the values present.
EmptyMeansNone ==
    Filtered =>
        /\ ((\E a \in {"sentiment", "source", "topic"} : sel[a] = {}) =>
               filtered_df = EmptyTable)
        /\ ((\A a \in {"sentiment", "source", "topic"} :
                 sel[a] = Options(df, a)) => filtered_df = df)

\* C6 witness: rows to show, one axis deselected, nothing shown.
EmptyMeansNoneWitness ==
    /\ Filtered
    /\ df # EmptyTable
    /\ sel.sentiment = {}
    /\ sel.source = Options(df, "source")
    /\ sel.topic = Options(df, "topic")
    /\ filtered_df = EmptyTable

\* C7 as stated: the view is the subsequence of rows passing every active
\* predicate, an empty selection being inactive.
FilterAndActive == Filtered => filtered_df = ActiveView(df, sel)

\* C7 as amended: the view is the subsequence of rows whose sentiment,
\* source and topic are each in the selection of their axis.
FilterAnd == Filtered => filtered_df = MemberView(df, sel)

\* C7 witness: the first row fails on the source alone and is left out, the
\* second passes on all three and is kept.
FilterAndWitness ==
    /\ Filtered
    /\ Len(df) = 2
    /\ df[1].sentiment \in sel.sentiment
    /\ df[1].topic \in sel.topic
    /\ df[1].source \notin sel.source
    /\ filtered_df = <<df[2]>>

\* C9: filtering the view again with the same selections gives the view,
\* and the filter step leaves df as it was.
FilterIdempotent ==
    /\ [](Filtered => ApplyFilter(filtered_df, sel) = filtered_df)
    /\ [][pc = "filter" => df' = df]_vars

\* C9 witness: a view that kept some rows and dropped others.
FilterIdempotentWitness ==
    /\ Filtered
    /\ filtered_df # EmptyTable
    /\ Len(filtered_df) < Len(df)

=============================================================================
